---- MODULE Spec2Model ----
(***************************************************************************)
(* Model of checks/correct_coordinate_axis.rs of fbx-sanitizer: the check  *)
(* that reads the coordinate axis declared in an FBX document's global     *)
(* settings and compares it with the axis expected of the authoring        *)
(* application.                                                            *)
(*                                                                         *)
(* Option<T> is a sequence of length at most one: None is <<>> and         *)
(* Some(v) is <<v>>.  A Vector3<i8> is a record [x, y, z].                 *)
(***************************************************************************)
EXTENDS Integers, Sequences, FiniteSets, TLC

VARIABLES doc, pc, global_settings, up_axis, front_axis, coord_axis,
          application_name, lookups, result

vars == <<doc, pc, global_settings, up_axis, front_axis, coord_axis,
          application_name, lookups, result>>

None == <<>>

Some(v) == <<v>>

\* ------------------------------------------------------------------ bounds

\* I32 values of the documents of Spec range over -1..MaxI32.
MaxI32 == 3

\* Sign values of the documents of SpecWrap are k * 256 + r, k in -Wraps..Wraps.
Wraps == 1

\* Vector components of the bases of SpecTriplet range over -1..MaxComp.
MaxComp == 2

\* --------------------------------------------------------------- documents

PropNames == {"UpAxis", "UpAxisSign", "FrontAxis", "FrontAxisSign",
              "CoordAxis", "CoordAxisSign"}

I32(v) == [tag |-> "I32", v |-> v]

I64(v) == [tag |-> "I64", v |-> v]

\* A property node with the given value part.
Property(vp) == [value_part |-> vp]

\* What a document may hold under one property name: nothing, a property with
\* no value, a property whose first value is not an I32, or an I32 property.
PropOpts(ints) ==
    {None, Some(Property(<<>>)), Some(Property(<<I64(1)>>))}
        \cup {Some(Property(<<I32(v)>>)) : v \in ints}

I32Vals == -1..MaxI32

Docs ==
    {[global_settings |-> None]}
        \cup {[global_settings |-> Some(p)] : p \in [PropNames -> PropOpts(I32Vals)]}

\* Documents whose axis indices are valid I32s and whose signs are absent or
\* I32s spread over several multiples of 2^8 and the ends of the i8 range.
WrapSigns == {k * 256 + r : k \in (0 - Wraps)..Wraps, r \in -1..1} \cup {127, 128}

AxisNameSet == {"UpAxis", "FrontAxis", "CoordAxis"}

IsAxisName(n) == n \in AxisNameSet

\* The axis name a sign property belongs to.
AxisOfSign(n) == CHOOSE a \in AxisNameSet : a \o "Sign" = n

WrapDocs ==
    {[global_settings |->
         Some([n \in PropNames |->
                 IF IsAxisName(n) THEN Some(Property(<<I32(idx[n])>>))
                 ELSE sgn[AxisOfSign(n)]])] :
        idx \in [AxisNameSet -> 0..2], sgn \in [AxisNameSet -> PropOpts(WrapSigns) \ {Some(Property(<<>>)), Some(Property(<<I64(1)>>))}]}

\* The vectors a CoordinateAxis of SpecTriplet is built from.
Vectors == {[x |-> a, y |-> b, z |-> c] : a \in -1..MaxComp, b \in -1..MaxComp, c \in -1..MaxComp}

\* ApplicationName of crate::utils; Maya stands for every variant other than
\* Max and Blender.
ApplicationNames == {"Max", "Blender", "Maya"}

OptApplicationNames == {None} \cup {Some(a) : a \in ApplicationNames}

\* ---------------------------------------------------------- pure functions

\* Mutant of AsI8: the narrowing keeps the low byte unsigned (`as u8`).
AsU8(s) == s % 256

\* `*sign as i8`: an i32 narrowed to a signed 8-bit integer.
AsI8(s) == ((s + 128) % 256) - 128

Vector3(x, y, z) == [x |-> x, y |-> y, z |-> z]

\* raw_properties().get_property(name)
GetProperty(gs, name) == gs[name]

\* Mutant of I32First: any integer variant is accepted, not I32 alone.
I32FirstAnyInt(gs, name) ==
    LET p == GetProperty(gs, name) IN
    IF p = None THEN None
    ELSE LET vp == p[1].value_part IN
         IF Len(vp) = 0 THEN None
         ELSE IF vp[1].tag \in {"I32", "I64"} THEN Some(vp[1].v) ELSE None

\* `if let AttributeValue::I32(v) = ...get_property(name)?.value_part().get(0)?`
\* of get_axis: Some(v), or None where get_axis returns None.
I32First(gs, name) ==
    LET p == GetProperty(gs, name) IN
    IF p = None THEN None
    ELSE LET vp == p[1].value_part IN
         IF Len(vp) = 0 THEN None
         ELSE IF vp[1].tag = "I32" THEN Some(vp[1].v) ELSE None

SignName(name) == name \o "Sign"

\* Mutant of GetAxis: the arms for index 1 and index 2 are exchanged.
GetAxisSwapYZ(gs, name) ==
    LET axis == I32First(gs, name) IN
    IF axis = None THEN None
    ELSE LET sign == I32First(gs, SignName(name)) IN
         IF sign = None THEN None
         ELSE CASE axis[1] = 0 -> Some(Vector3(AsI8(sign[1]), 0, 0))
                [] axis[1] = 1 -> Some(Vector3(0, 0, AsI8(sign[1])))
                [] axis[1] = 2 -> Some(Vector3(0, AsI8(sign[1]), 0))
                [] OTHER -> None

GetAxis(gs, name) ==
    LET axis == I32First(gs, name) IN
    IF axis = None THEN None
    ELSE LET sign == I32First(gs, SignName(name)) IN
         IF sign = None THEN None
         ELSE CASE axis[1] = 0 -> Some(Vector3(AsI8(sign[1]), 0, 0))
                [] axis[1] = 1 -> Some(Vector3(0, AsI8(sign[1]), 0))
                [] axis[1] = 2 -> Some(Vector3(0, 0, AsI8(sign[1])))
                [] OTHER -> None

\* Mutant of GetAxisLookups: both properties are fetched before either is
\* examined.
GetAxisLookupsEager(gs, name) == <<name, SignName(name)>>

\* The property look-ups one call of get_axis makes, in order.
GetAxisLookups(gs, name) ==
    IF I32First(gs, name) = None THEN <<name>> ELSE <<name, SignName(name)>>

CoordinateAxis(up, front, coord) == [up |-> up, front |-> front, coord |-> coord]

GetCoordinateAxis(d) ==
    IF d.global_settings = None THEN None
    ELSE LET gs == d.global_settings[1]
             up == GetAxis(gs, "UpAxis")
             front == GetAxis(gs, "FrontAxis")
             coord == GetAxis(gs, "CoordAxis")
         IN IF up = None THEN None
            ELSE IF front = None THEN None
            ELSE IF coord = None THEN None
            ELSE Some(CoordinateAxis(up[1], front[1], coord[1]))

\* Mutant of CoordinateAxisForSoftware: Blender is expected in the same
\* orientation as Max, without the 180 degree flip.
CoordinateAxisForSoftwareNoFlip(app) ==
    IF app = Some("Max")
    THEN CoordinateAxis(Vector3(0, 0, 1), Vector3(0, -1, 0), Vector3(1, 0, 0))
    ELSE IF app = Some("Blender")
    THEN CoordinateAxis(Vector3(0, 0, 1), Vector3(0, -1, 0), Vector3(1, 0, 0))
    ELSE CoordinateAxis(Vector3(0, 1, 0), Vector3(0, 0, 1), Vector3(1, 0, 0))

CoordinateAxisForSoftware(app) ==
    IF app = Some("Max")
    THEN CoordinateAxis(Vector3(0, 0, 1), Vector3(0, -1, 0), Vector3(1, 0, 0))
    ELSE IF app = Some("Blender")
    THEN CoordinateAxis(Vector3(0, 0, 1), Vector3(0, 1, 0), Vector3(-1, 0, 0))
    ELSE CoordinateAxis(Vector3(0, 1, 0), Vector3(0, 0, 1), Vector3(1, 0, 0))

\* A call either returns a value or panics.
Ret(v) == [kind |-> "ret", val |-> v]

Panic(msg) == [kind |-> "panic", val |-> msg]

\* Mutant of AxisLetter: the arm for -Y yields "+Y".
AxisLetterSignLost(v) ==
    CASE v = Vector3(1, 0, 0) -> Ret("+X")
      [] v = Vector3(-1, 0, 0) -> Ret("-X")
      [] v = Vector3(0, 1, 0) -> Ret("+Y")
      [] v = Vector3(0, -1, 0) -> Ret("+Y")
      [] v = Vector3(0, 0, 1) -> Ret("+Z")
      [] v = Vector3(0, 0, -1) -> Ret("-Z")
      [] OTHER -> Panic("Invalid Coordinate System")

\* Mutant of AxisLetter: the arm for -Z is missing.
AxisLetterNoMinusZ(v) ==
    CASE v = Vector3(1, 0, 0) -> Ret("+X")
      [] v = Vector3(-1, 0, 0) -> Ret("-X")
      [] v = Vector3(0, 1, 0) -> Ret("+Y")
      [] v = Vector3(0, -1, 0) -> Ret("-Y")
      [] v = Vector3(0, 0, 1) -> Ret("+Z")
      [] OTHER -> Panic("Invalid Coordinate System")

AxisLetter(v) ==
    CASE v = Vector3(1, 0, 0) -> Ret("+X")
      [] v = Vector3(-1, 0, 0) -> Ret("-X")
      [] v = Vector3(0, 1, 0) -> Ret("+Y")
      [] v = Vector3(0, -1, 0) -> Ret("-Y")
      [] v = Vector3(0, 0, 1) -> Ret("+Z")
      [] v = Vector3(0, 0, -1) -> Ret("-Z")
      [] OTHER -> Panic("Invalid Coordinate System")

\* Mutant of DisplayTriplet: the axes are written in the order of the struct's
\* fields, up first.
DisplayTripletUpFirst(ca) ==
    LET front == AxisLetter(ca.front)
        up == AxisLetter(ca.up)
        coord == AxisLetter(ca.coord)
    IN IF front.kind = "panic" THEN front
       ELSE IF up.kind = "panic" THEN up
       ELSE IF coord.kind = "panic" THEN coord
       ELSE Ret("Up:" \o up.val \o ",Front:" \o front.val \o ",Coord:" \o coord.val)

DisplayTriplet(ca) ==
    LET front == AxisLetter(ca.front)
        up == AxisLetter(ca.up)
        coord == AxisLetter(ca.coord)
    IN IF front.kind = "panic" THEN front
       ELSE IF up.kind = "panic" THEN up
       ELSE IF coord.kind = "panic" THEN coord
       ELSE Ret("Front:" \o front.val \o ",Up:" \o up.val \o ",Coord:" \o coord.val)

\* {:?} of an Option<ApplicationName>
DebugApplicationName(app) ==
    IF app = None THEN "None" ELSE "Some(" \o app[1] \o ")"

Ok(v) == [kind |-> "Ok", val |-> v]

Err(msg) == [kind |-> "Err", val |-> msg]

\* Lines 21-32 of verify: the comparison and the diagnostic.
Compare(axis, app) ==
    LET correct == CoordinateAxisForSoftware(app) IN
    IF axis # correct
    THEN LET c == DisplayTriplet(correct) IN
         IF c.kind = "panic" THEN c
         ELSE LET a == DisplayTriplet(axis) IN
              IF a.kind = "panic" THEN a
              ELSE Ok(<<"File has incorrect Coordinate Axis. Expected [" \o c.val
                        \o "] actual [" \o a.val \o "]. ["
                        \o DebugApplicationName(app) \o "]">>)
    ELSE Ok(<<>>)

NotFound == Err("Could not find coordinate axis.")

\* verify, as a function of the document and of what get_application_name
\* answers for it.
Verify(d, app) ==
    LET axis == GetCoordinateAxis(d) IN
    IF axis = None THEN NotFound ELSE Compare(axis[1], app)

\* ----------------------------------------------------------- state machine

InitLocals ==
    /\ pc = "verify"
    /\ global_settings = None
    /\ up_axis = None
    /\ front_axis = None
    /\ coord_axis = None
    /\ application_name = None
    /\ lookups = <<>>
    /\ result = None

Init == doc \in Docs /\ InitLocals

InitWrap == doc \in WrapDocs /\ InitLocals

\* verify calls get_coordinate_axis, which asks for the global settings.
GlobalSettings ==
    /\ pc = "verify"
    /\ global_settings' = doc.global_settings
    /\ IF doc.global_settings = None
       THEN pc' = "done" /\ result' = Some(NotFound)
       ELSE pc' = "up" /\ UNCHANGED result
    /\ UNCHANGED <<doc, up_axis, front_axis, coord_axis, application_name, lookups>>

\* One of the three calls of get_axis; absence ends verify with the error.
AxisStep(at, name, next) ==
    /\ pc = at
    /\ lookups' = lookups \o GetAxisLookups(global_settings[1], name)
    /\ IF GetAxis(global_settings[1], name) = None
       THEN pc' = "done" /\ result' = Some(NotFound)
       ELSE pc' = next /\ UNCHANGED result

GetUpAxis ==
    /\ AxisStep("up", "UpAxis", "front")
    /\ up_axis' = GetAxis(global_settings[1], "UpAxis")
    /\ UNCHANGED <<doc, global_settings, front_axis, coord_axis, application_name>>

GetFrontAxis ==
    /\ AxisStep("front", "FrontAxis", "coord")
    /\ front_axis' = GetAxis(global_settings[1], "FrontAxis")
    /\ UNCHANGED <<doc, global_settings, up_axis, coord_axis, application_name>>

GetCoordAxis ==
    /\ AxisStep("coord", "CoordAxis", "app")
    /\ coord_axis' = GetAxis(global_settings[1], "CoordAxis")
    /\ UNCHANGED <<doc, global_settings, up_axis, front_axis, application_name>>

\* get_application_name(doc) is an external helper: any identity, or none.
GetApplicationName ==
    /\ pc = "app"
    /\ \E a \in OptApplicationNames : application_name' = a
    /\ pc' = "compare"
    /\ UNCHANGED <<doc, global_settings, up_axis, front_axis, coord_axis, lookups, result>>

CompareStep ==
    /\ pc = "compare"
    /\ LET r == Compare(CoordinateAxis(up_axis[1], front_axis[1], coord_axis[1]),
                        application_name)
       IN /\ result' = Some(r)
          /\ pc' = IF r.kind = "panic" THEN "panicked" ELSE "done"
    /\ UNCHANGED <<doc, global_settings, up_axis, front_axis, coord_axis,
                   application_name, lookups>>

Next ==
    \/ GlobalSettings
    \/ GetUpAxis
    \/ GetFrontAxis
    \/ GetCoordAxis
    \/ GetApplicationName
    \/ CompareStep

Spec == Init /\ [][Next]_vars

SpecWrap == InitWrap /\ [][Next]_vars

\* display_triplet on its own, applied to any CoordinateAxis value.
InitTriplet ==
    /\ doc = [global_settings |-> None]
    /\ pc = "display_triplet"
    /\ global_settings = None
    /\ up_axis \in {Some(v) : v \in Vectors}
    /\ front_axis \in {Some(v) : v \in Vectors}
    /\ coord_axis \in {Some(v) : v \in Vectors}
    /\ application_name = None
    /\ lookups = <<>>
    /\ result = None

DisplayTripletCall ==
    /\ pc = "display_triplet"
    /\ LET r == DisplayTriplet(CoordinateAxis(up_axis[1], front_axis[1], coord_axis[1]))
       IN /\ result' = Some(r)
          /\ pc' = IF r.kind = "panic" THEN "panicked" ELSE "done"
    /\ UNCHANGED <<doc, global_settings, up_axis, front_axis, coord_axis,
                   application_name, lookups>>

NextTriplet == DisplayTripletCall

SpecTriplet == InitTriplet /\ [][NextTriplet]_vars

\* ----------------------------------------------- vocabulary of the properties
\* What the properties below say about a document and an axis is stated here
\* from the raw contents of the document, not through the operators above.

Terminal == pc \in {"done", "panicked"}

\* Property n is present and its first value element is a 32-bit integer.
HoldsI32(n) ==
    /\ doc.global_settings # None
    /\ doc.global_settings[1][n] # None
    /\ Len(doc.global_settings[1][n][1].value_part) >= 1
    /\ doc.global_settings[1][n][1].value_part[1].tag = "I32"

RawVal(n) == doc.global_settings[1][n][1].value_part[1].v

\* Global settings present, all six properties 32-bit integers, all three
\* axis indices in {0,1,2}.
WellFormed ==
    /\ doc.global_settings # None
    /\ \A n \in PropNames : HoldsI32(n)
    /\ \A a \in AxisNameSet : RawVal(a) \in 0..2

\* The representative of s modulo 2^8 in the signed 8-bit range.
Wrap8(s) == CHOOSE r \in -128..127 : (s - r) % 256 = 0

\* The vector with component c in dimension i (0 = x, 1 = y, 2 = z).
UnitVec(i, c) ==
    [x |-> IF i = 0 THEN c ELSE 0, y |-> IF i = 1 THEN c ELSE 0, z |-> IF i = 2 THEN c ELSE 0]

SixAxes == {UnitVec(i, c) : i \in 0..2, c \in {1, -1}}

SixLetters == {"+X", "-X", "+Y", "-Y", "+Z", "-Z"}

\* The axis a well-formed document declares under axis name a.
DeclaredAxis(a) == UnitVec(RawVal(a), Wrap8(RawVal(a \o "Sign")))

DeclaredBasis ==
    [up |-> DeclaredAxis("UpAxis"), front |-> DeclaredAxis("FrontAxis"),
     coord |-> DeclaredAxis("CoordAxis")]

\* The signed-letter pair of one of the six axes, and its inverse.
Letters(v) ==
    (IF v.x + v.y + v.z > 0 THEN "+" ELSE "-")
        \o (IF v.x # 0 THEN "X" ELSE IF v.y # 0 THEN "Y" ELSE "Z")

ParseLetters(s) ==
    UnitVec(IF SubSeq(s, 2, 2) = "X" THEN 0 ELSE IF SubSeq(s, 2, 2) = "Y" THEN 1 ELSE 2,
            IF SubSeq(s, 1, 1) = "+" THEN 1 ELSE -1)

\* "Front:<f>,Up:<u>,Coord:<c>"
Triplet(b) ==
    "Front:" \o Letters(b.front) \o ",Up:" \o Letters(b.up) \o ",Coord:" \o Letters(b.coord)

Contains(h, n) ==
    \E i \in 1..(Len(h) - Len(n) + 1) : SubSeq(h, i, i + Len(n) - 1) = n

\* The policy table of the specification.
PolicyTable(app) ==
    IF app = Some("Max")
    THEN [up |-> UnitVec(2, 1), front |-> UnitVec(1, -1), coord |-> UnitVec(0, 1)]
    ELSE IF app = Some("Blender")
    THEN [up |-> UnitVec(2, 1), front |-> UnitVec(1, 1), coord |-> UnitVec(0, -1)]
    ELSE [up |-> UnitVec(1, 1), front |-> UnitVec(2, 1), coord |-> UnitVec(0, 1)]

\* The document with the given six integer properties.
DocOf(up, upSign, front, frontSign, coord, coordSign) ==
    [global_settings |->
        Some([n \in PropNames |->
                Some(Property(<<I32(CASE n = "UpAxis" -> up
                                      [] n = "UpAxisSign" -> upSign
                                      [] n = "FrontAxis" -> front
                                      [] n = "FrontAxisSign" -> frontSign
                                      [] n = "CoordAxis" -> coord
                                      [] OTHER -> coordSign)>>))])]

ScenarioA == DocOf(1, 1, 2, 1, 0, 1)

ScenarioD == DocOf(2, 1, 1, 1, 0, -1)

\* The call of get_axis for axis name a has returned, and what it returned.
Called(a) ==
    CASE a = "UpAxis" -> pc \notin {"verify", "up"} /\ doc.global_settings # None
      [] a = "FrontAxis" -> pc \notin {"verify", "up", "front"} /\ up_axis # None
      [] OTHER -> pc \notin {"verify", "up", "front", "coord"}
                    /\ up_axis # None /\ front_axis # None

Got(a) ==
    CASE a = "UpAxis" -> up_axis
      [] a = "FrontAxis" -> front_axis
      [] OTHER -> coord_axis

\* The application identity has been obtained (line 19 has run).
Identified == pc = "compare" \/ (Terminal /\ result # Some(NotFound))

SixOrder == <<"UpAxis", "UpAxisSign", "FrontAxis", "FrontAxisSign", "CoordAxis", "CoordAxisSign">>

\* Look-up i of the fixed order is the one that ends the extraction: it finds
\* no 32-bit integer, or it is the sign look-up of an axis whose index is not
\* in {0,1,2}.
StopsAt(i) ==
    \/ ~HoldsI32(SixOrder[i])
    \/ (i % 2 = 0 /\ RawVal(SixOrder[i - 1]) \notin 0..2)

\* ------------------------------------------------------------------ claims

\* C1: for every document whose basis extraction succeeds and every
\* application identity, verify returns normally: the empty sequence when
\* the declared basis equals the expected one, exactly one diagnostic
\* otherwise.  (Refuted by the code: see C10.)
C1_VerifyReturnsNormally ==
    (Terminal /\ WellFormed) =>
        /\ pc = "done"
        /\ result[1].kind = "Ok"
        /\ Len(result[1].val) =
              IF DeclaredBasis = PolicyTable(application_name) THEN 0 ELSE 1

\* C2: verify fails with "coordinate axis not found" exactly when the global
\* settings are absent, one of the six properties is absent or does not hold
\* a 32-bit integer first, or an axis index is outside {0,1,2}; otherwise
\* the extraction yields a complete three-axis basis, and a failed
\* extraction yields no basis at all.
C2_NotFoundExactlyWhenMalformed ==
    /\ Terminal =>
          /\ (result = Some(NotFound)) <=> ~WellFormed
          /\ WellFormed => /\ up_axis # None /\ front_axis # None /\ coord_axis # None
                           /\ result[1].kind # "Err"
          /\ ~WellFormed => result[1].kind = "Err"
    /\ (GetCoordinateAxis(doc) = None) <=> ~WellFormed
    /\ WellFormed => GetCoordinateAxis(doc) = Some(DeclaredBasis)

C2_Witness ==
    /\ pc = "done"
    /\ result = Some(NotFound)
    /\ up_axis # None
    /\ front_axis # None
    /\ coord_axis = None
    /\ doc.global_settings[1]["CoordAxis"] = None
    /\ HoldsI32("CoordAxisSign")

\* C3: every axis returned by get_axis has exactly one non-zero component,
\* which is +1 or -1.  (Refuted by the code.)
C3_ExtractedAxisIsUnit ==
    \A a \in {up_axis, front_axis, coord_axis} : a # None => a[1] \in SixAxes

\* C4 as stated: the diagnostic contains the contiguous text
\* "Expected " T(expected) " actual " T(actual).  (Refuted: the code puts
\* each triplet in square brackets.)
C4_ContainsUnbracketedText ==
    (pc = "done" /\ result[1].kind = "Ok" /\ Len(result[1].val) = 1) =>
        Contains(result[1].val[1],
                 "Expected " \o Triplet(PolicyTable(application_name))
                     \o " actual " \o Triplet(DeclaredBasis))

\* C4 amended: the single diagnostic contains the contiguous text
\* "Expected [" T(expected) "] actual [" T(actual) "]", the axes in the order
\* Front, Up, Coord; for scenario A's document identified as Max that is
\* "Expected [Front:-Y,Up:+Z,Coord:+X] actual [Front:+Z,Up:+Y,Coord:+X]".
C4_ContainsBracketedText ==
    /\ (pc = "done" /\ result[1].kind = "Ok" /\ Len(result[1].val) = 1) =>
          Contains(result[1].val[1],
                   "Expected [" \o Triplet(PolicyTable(application_name))
                       \o "] actual [" \o Triplet(DeclaredBasis) \o "]")
    /\ (Terminal /\ doc = ScenarioA /\ application_name = Some("Max")) =>
          /\ pc = "done"
          /\ result[1].kind = "Ok"
          /\ Len(result[1].val) = 1
          /\ Contains(result[1].val[1],
                "Expected [Front:-Y,Up:+Z,Coord:+X] actual [Front:+Z,Up:+Y,Coord:+X]")

C4_Witness ==
    /\ pc = "done"
    /\ doc = ScenarioA
    /\ application_name = Some("Max")
    /\ Len(result[1].val) = 1

\* C5: the expected basis is a total function of the identity: Max gives
\* (up +Z, front -Y, coord +X), Blender (up +Z, front +Y, coord -X), every
\* other identity and the unknown one (up +Y, front +Z, coord +X).
C5_PolicyTable ==
    /\ Identified =>
          CoordinateAxisForSoftware(application_name) = PolicyTable(application_name)
    /\ (Terminal /\ Identified /\ WellFormed) =>
          ((result = Some(Ok(<<>>))) <=> (DeclaredBasis = PolicyTable(application_name)))

C5_Witness ==
    /\ pc = "done"
    /\ application_name = None
    /\ result = Some(Ok(<<>>))
    /\ DeclaredBasis = [up |-> UnitVec(1, 1), front |-> UnitVec(2, 1), coord |-> UnitVec(0, 1)]

\* C6: a document whose six properties encode exactly the expected basis of
\* its application's class (index 0/1/2 for X/Y/Z, sign +1/-1) passes;
\* scenario A passes for an unknown application and scenario D for Blender.
C6_MatchingDocumentPasses ==
    /\ (Terminal /\ WellFormed /\ Identified
          /\ \A a \in AxisNameSet : RawVal(a \o "Sign") \in {1, -1}
          /\ [up |-> UnitVec(RawVal("UpAxis"), RawVal("UpAxisSign")),
              front |-> UnitVec(RawVal("FrontAxis"), RawVal("FrontAxisSign")),
              coord |-> UnitVec(RawVal("CoordAxis"), RawVal("CoordAxisSign"))]
                = PolicyTable(application_name))
          => (pc = "done" /\ result = Some(Ok(<<>>)))
    /\ (Terminal /\ doc = ScenarioA /\ application_name = None)
          => (pc = "done" /\ result = Some(Ok(<<>>)))
    /\ (Terminal /\ doc = ScenarioD /\ application_name = Some("Blender"))
          => (pc = "done" /\ result = Some(Ok(<<>>)))

C6_Witness ==
    /\ pc = "done"
    /\ doc = ScenarioD
    /\ application_name = Some("Blender")
    /\ result = Some(Ok(<<>>))

\* C7: rendering maps the six valid axes one-to-one onto +X, -X, +Y, -Y, +Z,
\* -Z, so that parsing the rendered letters gives the axis back, and
\* rendering any other vector produces no string but aborts.
C7_RenderRoundTrip ==
    Terminal =>
        LET allValid == {up_axis[1], front_axis[1], coord_axis[1]} \subseteq SixAxes
            s == result[1].val
        IN /\ allValid =>
                /\ pc = "done"
                /\ result[1].kind = "ret"
                /\ Len(s) = 23
                /\ SubSeq(s, 1, 6) = "Front:"
                /\ SubSeq(s, 9, 12) = ",Up:"
                /\ SubSeq(s, 15, 21) = ",Coord:"
                /\ {SubSeq(s, 7, 8), SubSeq(s, 13, 14), SubSeq(s, 22, 23)} \subseteq SixLetters
                /\ ParseLetters(SubSeq(s, 7, 8)) = front_axis[1]
                /\ ParseLetters(SubSeq(s, 13, 14)) = up_axis[1]
                /\ ParseLetters(SubSeq(s, 22, 23)) = coord_axis[1]
           /\ ~allValid =>
                /\ pc = "panicked"
                /\ result[1].kind = "panic"

C7_Witness ==
    /\ pc = "done"
    /\ doc.global_settings = None
    /\ result = Some(Ret("Front:-Y,Up:-Z,Coord:-X"))
    /\ front_axis = Some(UnitVec(1, -1))

\* C8: for an axis index in {0,1,2} and any 32-bit sign s, get_axis returns
\* the vector whose selected component is s wrapped to a signed 8-bit
\* integer, the other two zero, whatever the narrowed value: 257 gives +1,
\* 255 gives -1, 0 and 256 give the zero vector.
C8_SignNarrowedToI8 ==
    \A a \in AxisNameSet :
        (Called(a) /\ HoldsI32(a) /\ HoldsI32(a \o "Sign") /\ RawVal(a) \in 0..2) =>
            /\ Got(a) # None
            /\ Got(a)[1] = UnitVec(RawVal(a), Wrap8(RawVal(a \o "Sign")))
            /\ (RawVal(a \o "Sign") = 257 => Got(a)[1] = UnitVec(RawVal(a), 1))
            /\ (RawVal(a \o "Sign") = 255 => Got(a)[1] = UnitVec(RawVal(a), -1))
            /\ (RawVal(a \o "Sign") \in {0, 256} => Got(a)[1] = UnitVec(0, 0))

C8_Witness ==
    /\ pc = "app"
    /\ RawVal("UpAxisSign") = 257 /\ up_axis = Some(UnitVec(RawVal("UpAxis"), 1))
    /\ RawVal("FrontAxisSign") = 255 /\ front_axis = Some(UnitVec(RawVal("FrontAxis"), -1))
    /\ RawVal("CoordAxisSign") = 256 /\ coord_axis = Some(UnitVec(0, 0))

\* C9 as stated: every call of verify performs six property look-ups,
\* whatever the document and the outcome.  (Refuted: a failing extraction
\* stops at the look-up that fails.)
C9_AlwaysSixLookups == Terminal => Len(lookups) = 6

\* C9 amended: every call of verify makes its look-ups in the fixed order
\* UpAxis, UpAxisSign, FrontAxis, FrontAxisSign, CoordAxis, CoordAxisSign and
\* at most six of them: none when the global settings are absent, all six
\* when the extraction succeeds, and otherwise it stops at the first look-up
\* that finds no 32-bit integer, or after the sign look-up of the first axis
\* whose index is outside {0,1,2}.
C9_AtMostSixLookups ==
    /\ Len(lookups) <= 6
    /\ lookups = SubSeq(SixOrder, 1, Len(lookups))
    /\ Terminal =>
          IF doc.global_settings = None THEN lookups = <<>>
          ELSE IF WellFormed THEN lookups = SixOrder
          ELSE /\ Len(lookups) >= 1
               /\ StopsAt(Len(lookups))
               /\ \A i \in 1..(Len(lookups) - 1) : ~StopsAt(i)

C9_Witness ==
    /\ pc = "done"
    /\ lookups = <<"UpAxis", "UpAxisSign", "FrontAxis">>
    /\ result = Some(NotFound)

\* C10: verify aborts exactly when the extraction succeeds and at least one
\* of the three signs narrows to an 8-bit value other than +1 and -1,
\* whatever the application identity; the expected basis never causes the
\* abort.
C10_PanicsExactlyOnNonUnitSign ==
    /\ Terminal =>
          ((pc = "panicked") <=>
              (WellFormed /\ \E a \in AxisNameSet : Wrap8(RawVal(a \o "Sign")) \notin {1, -1}))
    /\ pc = "panicked" => result = Some(Panic("Invalid Coordinate System"))
    /\ Identified => DisplayTriplet(CoordinateAxisForSoftware(application_name)).kind = "ret"

C10_Witness ==
    /\ pc = "panicked"
    /\ application_name = Some("Blender")
    /\ RawVal("UpAxisSign") = 257
    /\ RawVal("FrontAxisSign") = 255
    /\ RawVal("CoordAxisSign") = 128

====
